---------------------------- MODULE Spec2Model ----------------------------
(***************************************************************************)
(* ClickHouse view-dependency extractor and Mermaid renderer.              *)
(*                                                                         *)
(*   src/ch_view_dependencies.py     the dependency collector              *)
(*   src/dependencies_to_mermaid.py  the graph builder / renderer          *)
(*                                                                         *)
(* Python strings whose characters matter (node names, the direction, the  *)
(* indent, the rendered text) are sequences of one-character strings.      *)
(* Python strings that are only built and compared (the fully-qualified    *)
(* view name, the error description) are TLA+ strings.                     *)
(* A Python dict is a sequence of [key, val] entries with distinct keys,   *)
(* in insertion order.                                                     *)
(***************************************************************************)
EXTENDS Integers, Sequences, FiniteSets, TLC

VARIABLES
    views,      \* _views_to_json: the list of (db, name, engine) descriptors
    script,     \* what the client and the parser do for the i-th descriptor
    idx,        \* _views_to_json: position of the for loop (1-based)
    result,     \* _views_to_json: result dict
    errors,     \* _views_to_json: errors dict
    payload,    \* _views_to_json: the returned payload
    cpc,        \* _views_to_json: "idle" | "loop" | "returned"
    args,       \* json_to_mermaid call: the positional arguments
    options,    \* json_to_mermaid call: the MermaidOptions
    outcome,    \* json_to_mermaid call: the text returned or the exception raised
    rpc,        \* json_to_mermaid call: "idle" | "call" | "done"
    raw_name,   \* normalize_table_name: the raw identifier text
    default_schema, \* normalize_table_name: the default schema, or None
    norm,       \* normalize_table_name: the successive results
    cleaned,    \* clean_ident: its result on the raw identifier
    npc,        \* normalize_table_name: "idle" | "start" | "once" | "twice"
    grammar,    \* parse_view_tables: what each entry rule of the parser does
    eidx,       \* parse_view_tables: position in the list of entry rules
    root,       \* parse_view_tables: the parse tree, or None
    invoked,    \* the entry rules called on the parser so far
    visitor,    \* TableNameCollector: default_db, tables, cte_names
    pending,    \* the nodes of the tree not yet visited, in visiting order
    parsed,     \* parse_view_tables: what the call raised or returned
    ppc         \* parse_view_tables: "idle" | "entry" | "visit" | "done"

vars == <<views, script, idx, result, errors, payload, cpc,
          args, options, outcome, rpc,
          raw_name, default_schema, norm, cleaned, npc,
          grammar, eidx, root, invoked, visitor, pending, parsed, ppc>>

collectVars == <<views, script, idx, result, errors, payload, cpc>>
renderVars == <<args, options, outcome, rpc>>
normVars == <<raw_name, default_schema, norm, cleaned, npc>>
parseVars == <<grammar, eidx, root, invoked, visitor, pending, parsed, ppc>>
extractorVars == <<normVars, parseVars>>

----------------------------------------------------------------------------
(* Bounds of the model. *)

\* longest list of view descriptors handed to _views_to_json
MaxViewList == 2

\* most keys of a view_dependencies mapping handed to json_to_mermaid
MaxViews == 3

\* most dependency entries of a mapping, all its lists taken together
MaxDeps == 3

----------------------------------------------------------------------------
(* Python dict: insertion-ordered entries with distinct keys. *)

EmptyDict == <<>>

DictKeys(d) == { d[i].key : i \in 1..Len(d) }

DictHas(d, k) == \E i \in 1..Len(d) : d[i].key = k

DictGet(d, k) == d[CHOOSE i \in 1..Len(d) : d[i].key = k].val

\* d[k] = v: an existing key keeps its position and takes the new value
DictSet(d, k, v) ==
    IF DictHas(d, k)
    THEN [i \in 1..Len(d) |-> IF d[i].key = k THEN [key |-> k, val |-> v] ELSE d[i]]
    ELSE Append(d, [key |-> k, val |-> v])

----------------------------------------------------------------------------
(* The external collaborators of the collector, as scripted behaviour.     *)

NoExc == "None"

\* the outcome of a call: the exception raised (type name and message) or
\* the value returned
Raised(exc, msg) == [exc |-> exc, msg |-> msg, value |-> <<>>]
Returned(v) == [exc |-> NoExc, msg |-> "", value |-> v]

\* client.query(...): raises, or answers result_rows
QueryRaises == [raises |-> TRUE, rows |-> <<>>]
QueryRows(rows) == [raises |-> FALSE, rows |-> rows]

\* the catalog's answers to the two queries of fetch_view_ddl
ClientScripts ==
    { [meta |-> QueryRows(<<<<"CREATE VIEW">>>>), show |-> QueryRows(<<>>)],
      [meta |-> QueryRows(<<<<"">>>>), show |-> QueryRows(<<<<"CREATE VIEW">>>>)],
      [meta |-> QueryRows(<<>>), show |-> QueryRows(<<>>)],
      [meta |-> QueryRaises, show |-> QueryRows(<<>>)] }

\* what the generated parser and the visitor do for one statement
ParserScripts ==
    { Raised("RuntimeError",
             "Could not find a suitable entry rule on ClickHouseParser for this grammar."),
      Returned(<<>>),
      Returned(<<"a.t">>) }

Scripts == [client : ClientScripts, parser : ParserScripts]

ViewDescriptors ==
    { [db |-> "a",   name |-> "c",   engine |-> "View"],
      [db |-> "a.b", name |-> "c",   engine |-> "MaterializedView"],
      [db |-> "a",   name |-> "b.c", engine |-> "View"] }

----------------------------------------------------------------------------
(* src/ch_view_dependencies.py *)

fetch_view_ddl(client, database, name) ==
    IF client.meta.raises
    THEN Raised("DatabaseError", "query failed")
    ELSE LET res == client.meta.rows IN
         IF res # <<>> /\ res[1] # <<>> /\ res[1][1] # ""
         THEN Returned(res[1][1])
         ELSE IF client.show.raises
              THEN Raised("DatabaseError", "query failed")
              ELSE LET show == client.show.rows IN
                   IF show = <<>>
                   THEN Raised("RuntimeError",
                               "Could not fetch DDL for " \o database \o "." \o name)
                   ELSE Returned(show[1][1])

\* the parse of one statement: what the scripted parser does with it
parse_view_tables(parser, ddl, default_db) == parser

\* f"{db}.{view_name}"
FqView(v) == v.db \o "." \o v.name

\* f"{type(e).__name__}: {e}"
ErrorText(e) == e.exc \o ": " \o e.msg

\* the try statement of the loop body: the call that raised, if any
TryBody(v, s) ==
    LET ddl == fetch_view_ddl(s.client, v.db, v.name) IN
    IF ddl.exc # NoExc
    THEN ddl
    ELSE parse_view_tables(s.parser, ddl.value, v.db)

\* one mutant of the loop body: the error is not recorded
LoopBodySilent(res, errs, v, s) ==
    LET t == TryBody(v, s) IN
    IF t.exc = NoExc
    THEN [result |-> DictSet(res, FqView(v), t.value), errors |-> errs]
    ELSE [result |-> res, errors |-> errs]

\* the body of the for loop of _views_to_json
LoopBody(res, errs, v, s) ==
    LET t == TryBody(v, s) IN
    IF t.exc = NoExc
    THEN [result |-> DictSet(res, FqView(v), t.value), errors |-> errs]
    ELSE [result |-> res, errors |-> DictSet(errs, FqView(v), ErrorText(t))]

\* the inputs of _views_to_json: a list of descriptors and, for each, what
\* the catalog and the parser answer
RECURSIVE SeqsUpTo(_, _)
SeqsUpTo(S, n) ==
    IF n = 0 THEN { <<>> }
    ELSE LET shorter == SeqsUpTo(S, n - 1) IN
         shorter \cup { Append(q, x) : q \in { r \in shorter : Len(r) = n - 1 }, x \in S }

NormalizeIdle ==
    /\ raw_name = <<>>
    /\ default_schema = <<>>
    /\ norm = <<>>
    /\ cleaned = <<>>
    /\ npc = "idle"

ParseIdle ==
    /\ grammar = <<>>
    /\ eidx = 0
    /\ root = <<>>
    /\ invoked = <<>>
    /\ visitor = <<>>
    /\ pending = <<>>
    /\ parsed = <<>>
    /\ ppc = "idle"

ExtractorIdle == NormalizeIdle /\ ParseIdle

RenderIdle ==
    /\ args = <<>>
    /\ options = <<>>
    /\ outcome = <<>>
    /\ rpc = "idle"

InitCollect ==
    /\ \E in \in SeqsUpTo(ViewDescriptors \X Scripts, MaxViewList) :
          /\ views = [i \in 1..Len(in) |-> in[i][1]]
          /\ script = [i \in 1..Len(in) |-> in[i][2]]
    /\ idx = 1
    /\ result = EmptyDict
    /\ errors = EmptyDict
    /\ payload = <<>>
    /\ cpc = "loop"
    /\ RenderIdle
    /\ ExtractorIdle

\* one iteration of `for db, view_name, _engine in views`
ViewsToJsonIterate ==
    /\ cpc = "loop"
    /\ idx <= Len(views)
    /\ LET r == LoopBody(result, errors, views[idx], script[idx]) IN
          /\ result' = r.result
          /\ errors' = r.errors
    /\ idx' = idx + 1
    /\ UNCHANGED <<views, script, payload, cpc, renderVars, extractorVars>>

\* the loop is exhausted: build and return the payload
ViewsToJsonReturn ==
    /\ cpc = "loop"
    /\ idx > Len(views)
    /\ payload' = [view_dependencies |-> result, errors |-> errors]
    /\ cpc' = "returned"
    /\ UNCHANGED <<views, script, idx, result, errors, renderVars, extractorVars>>

NextCollect == ViewsToJsonIterate \/ ViewsToJsonReturn

SpecCollect == InitCollect /\ [][NextCollect]_vars

----------------------------------------------------------------------------
(* Characters and strings of the renderer. *)

Lower == <<"a", "b", "c", "d", "e", "f", "g", "h", "i", "j", "k", "l", "m",
           "n", "o", "p", "q", "r", "s", "t", "u", "v", "w", "x", "y", "z">>
Upper == <<"A", "B", "C", "D", "E", "F", "G", "H", "I", "J", "K", "L", "M",
           "N", "O", "P", "Q", "R", "S", "T", "U", "V", "W", "X", "Y", "Z">>
Digits == <<"0", "1", "2", "3", "4", "5", "6", "7", "8", "9">>

\* the grave accent character U+0060, which a TLA+ string cannot hold
Backtick == "<grave>"

\* the characters of the model in increasing code point order
CodePointOrder ==
    <<"\t", "\n", "\r", " ", "\"", "'", "(", ")", "-", ".", "/">> \o Digits \o <<":">>
    \o Upper \o <<"[", "]", "_", Backtick>> \o Lower

Range(q) == { q[i] : i \in 1..Len(q) }

Ord(c) == CHOOSE i \in 1..Len(CodePointOrder) : CodePointOrder[i] = c

\* Python's a < b on str: lexicographic by code point
StrLess(a, b) ==
    \E k \in 1..(Len(b)) :
        /\ \A j \in 1..(k - 1) : j <= Len(a) /\ a[j] = b[j]
        /\ \/ k = Len(a) + 1
           \/ k <= Len(a) /\ Ord(a[k]) < Ord(b[k])

\* sorted(S) for a set S of str
RECURSIVE Sorted(_)
Sorted(S) ==
    IF S = {} THEN <<>>
    ELSE LET m == CHOOSE x \in S : \A y \in S \ {x} : StrLess(x, y)
         IN  <<m>> \o Sorted(S \ {m})

\* str.upper() on the characters of the model
UpperChar(c) ==
    IF \E i \in 1..Len(Lower) : Lower[i] = c
    THEN Upper[CHOOSE i \in 1..Len(Lower) : Lower[i] = c]
    ELSE c

StrUpper(s) == [i \in 1..Len(s) |-> UpperChar(s[i])]

Whitespace == {" ", "\t", "\n", "\r"}

\* str.strip(): leading and trailing whitespace removed
RECURSIVE LStrip(_)
LStrip(s) == IF s # <<>> /\ Head(s) \in Whitespace THEN LStrip(Tail(s)) ELSE s

RECURSIVE RStrip(_)
RStrip(s) ==
    IF s # <<>> /\ s[Len(s)] \in Whitespace
    THEN RStrip(SubSeq(s, 1, Len(s) - 1))
    ELSE s

StrStrip(s) == RStrip(LStrip(s))

\* "\n".join(lines)
RECURSIVE Join(_)
Join(lines) ==
    IF lines = <<>> THEN <<>>
    ELSE IF Len(lines) = 1 THEN lines[1]
    ELSE lines[1] \o <<"\n">> \o Join(Tail(lines))

----------------------------------------------------------------------------
(* Python values handed to the renderer. *)

PyNone == [t |-> "None", s |-> <<>>, elems |-> <<>>]
PyStr(s) == [t |-> "str", s |-> s, elems |-> <<>>]
PyInt == [t |-> "int", s |-> <<>>, elems |-> <<>>]
PyList(elems) == [t |-> "list", s |-> <<>>, elems |-> elems]
PyDict(items) == [t |-> "dict", s |-> <<>>, elems |-> items]
PySet(elems) == [t |-> "set", s |-> <<>>, elems |-> elems]

\* the mapping handed in: whether it has the key 'view_dependencies', and
\* the value under it
Data(present, raw) == [present |-> present, raw |-> raw]

----------------------------------------------------------------------------
(* src/dependencies_to_mermaid.py *)

GraphError == "MermaidDependencyGraphError"

\* the outcome of a render call: the exception raised (its type, its message
\* and the name or key the message quotes), or the text returned
RaiseError(exc, msg, arg) == [exc |-> exc, msg |-> msg, arg |-> arg, text |-> <<>>]
ReturnText(text) == [exc |-> NoExc, msg |-> "", arg |-> <<>>, text |-> text]

AllowedChars == Range(Upper) \cup Range(Lower) \cup Range(Digits) \cup {"_", ".", ":", "-"}

\* _ALLOWED_NODE_RE.match(name) for ^[A-Za-z0-9_.:\-]+$ : one or more
\* characters of the class from the start, then the end of the string or
\* the newline that ends the string
AllowedNodeReMatch(name) ==
    \E k \in 1..Len(name) :
        /\ \A j \in 1..k : name[j] \in AllowedChars
        /\ \/ k = Len(name)
           \/ k = Len(name) - 1 /\ name[Len(name)] = "\n"

\* _validate_node_name: raises unless the pattern matches
ValidateNodeNameRaises(name) == ~AllowedNodeReMatch(name)

InvalidNodeName(name) ==
    RaiseError(GraphError, "Invalid node name for unquoted Mermaid output", name)

Directions == { <<"L", "R">>, <<"T", "B">>, <<"R", "L">>, <<"B", "T">> }

\* options.direction.strip().upper()
NormalizeDirection(d) == StrUpper(StrStrip(d))

\* the inner loop `for dep in deps` of _deps_to_mermaid, from position j;
\* st is [exc, nodes, edges], exc the exception raised so far
RECURSIVE CollectDeps(_, _, _, _)
CollectDeps(view, deps, j, st) ==
    IF j > Len(deps) \/ st.exc.exc # NoExc THEN st
    ELSE IF ValidateNodeNameRaises(deps[j])
    THEN [st EXCEPT !.exc = InvalidNodeName(deps[j])]
    ELSE CollectDeps(view, deps, j + 1,
                     [st EXCEPT !.nodes = @ \cup {deps[j]},
                                !.edges = Append(@, <<deps[j], view>>)])

\* the outer loop `for view, deps in view_deps.items()`, from position i
RECURSIVE CollectViews(_, _, _)
CollectViews(view_deps, i, st) ==
    IF i > Len(view_deps) \/ st.exc.exc # NoExc THEN st
    ELSE IF ValidateNodeNameRaises(view_deps[i].key)
    THEN [st EXCEPT !.exc = InvalidNodeName(view_deps[i].key)]
    ELSE CollectViews(view_deps, i + 1,
                      CollectDeps(view_deps[i].key, view_deps[i].val, 1,
                                  [st EXCEPT !.nodes = @ \cup {view_deps[i].key}]))

\* one mutant of the dedupe loop: the last occurrence of a pair is kept
RECURSIVE DedupeEdgesKeepLast(_, _, _, _)
DedupeEdgesKeepLast(edges, i, seen, deduped) ==
    IF i > Len(edges) THEN deduped
    ELSE IF \E j \in (i + 1)..Len(edges) : edges[j] = edges[i]
    THEN DedupeEdgesKeepLast(edges, i + 1, seen, deduped)
    ELSE DedupeEdgesKeepLast(edges, i + 1, seen, Append(deduped, edges[i]))

\* the loop `for e in edges` under options.dedupe_edges, from position i
RECURSIVE DedupeEdges(_, _, _, _)
DedupeEdges(edges, i, seen, deduped) ==
    IF i > Len(edges) THEN deduped
    ELSE IF edges[i] \notin seen
    THEN DedupeEdges(edges, i + 1, seen \cup {edges[i]}, Append(deduped, edges[i]))
    ELSE DedupeEdges(edges, i + 1, seen, deduped)

Arrow == <<" ", "-", ".", "-", ">", " ">>

\* f"{options.indent}{src} -.-> {dst}"
EdgeLine(indent, e) == indent \o e[1] \o Arrow \o e[2]

\* f"{options.indent}{n}"
NodeLine(indent, n) == indent \o n

GraphWord == <<"g", "r", "a", "p", "h", " ">>

\* one mutant of the line builder: isolated nodes are listed whatever the option
BuildLinesAlwaysIsolated(direction, nodes, edges, opts) ==
    LET connected == { e[1] : e \in Range(edges) } \cup { e[2] : e \in Range(edges) }
        isolated == Sorted(nodes \ connected)
    IN  <<GraphWord \o direction>>
        \o [i \in 1..Len(edges) |-> EdgeLine(opts.indent, edges[i])]
        \o [i \in 1..Len(isolated) |-> NodeLine(opts.indent, isolated[i])]

\* one mutant of the line builder: the isolated nodes come in no sorted
\* order (here the reverse one)
BuildLinesUnsorted(direction, nodes, edges, opts) ==
    LET connected == { e[1] : e \in Range(edges) } \cup { e[2] : e \in Range(edges) }
        isolated == Sorted(nodes \ connected)
        n == Len(isolated)
    IN  <<GraphWord \o direction>>
        \o [i \in 1..Len(edges) |-> EdgeLine(opts.indent, edges[i])]
        \o (IF opts.include_isolated_nodes
            THEN [i \in 1..n |-> NodeLine(opts.indent, isolated[n + 1 - i])]
            ELSE <<>>)

\* one mutant of the line builder: node names are written quoted
BuildLinesQuoted(direction, nodes, edges, opts) ==
    LET connected == { e[1] : e \in Range(edges) } \cup { e[2] : e \in Range(edges) }
        isolated == Sorted(nodes \ connected)
        q(n) == <<"\"">> \o n \o <<"\"">>
    IN  <<GraphWord \o direction>>
        \o [i \in 1..Len(edges) |-> EdgeLine(opts.indent, <<q(edges[i][1]), q(edges[i][2])>>)]
        \o (IF opts.include_isolated_nodes
            THEN [i \in 1..Len(isolated) |-> NodeLine(opts.indent, q(isolated[i]))]
            ELSE <<>>)

\* the lines of _deps_to_mermaid: the header, then the edge lines or (with
\* no edge) the sorted nodes, then the sorted isolated nodes
BuildLines(direction, nodes, edges, opts) ==
    LET header == <<GraphWord \o direction>>
        body ==
            IF edges # <<>>
            THEN [i \in 1..Len(edges) |-> EdgeLine(opts.indent, edges[i])]
            ELSE IF opts.include_isolated_nodes
            THEN LET all == Sorted(nodes) IN
                 [i \in 1..Len(all) |-> NodeLine(opts.indent, all[i])]
            ELSE <<>>
        tail ==
            IF opts.include_isolated_nodes /\ edges # <<>>
            THEN LET connected == { e[1] : e \in Range(edges) }
                                  \cup { e[2] : e \in Range(edges) }
                     isolated == Sorted(nodes \ connected)
                 IN  [i \in 1..Len(isolated) |-> NodeLine(opts.indent, isolated[i])]
            ELSE <<>>
    IN  header \o body \o tail

\* one mutant of the direction check: the value is taken as supplied
CheckedDirectionVerbatim(opts) == opts.direction

\* the direction of the header; <<>> stands for "not one of the four"
CheckedDirection(opts) ==
    LET direction == NormalizeDirection(opts.direction) IN
    IF direction \in Directions THEN direction ELSE <<>>

\* view_deps is the validated dict: keys are str, values are lists of str
\* (both as character sequences)
deps_to_mermaid(view_deps, opts) ==
    LET direction == CheckedDirection(opts) IN
    IF direction \notin Directions
    THEN RaiseError(GraphError, "options.direction must be one of LR, TB, RL, BT", <<>>)
    ELSE LET st == CollectViews(view_deps, 1,
                                [exc |-> ReturnText(<<>>), nodes |-> {}, edges |-> <<>>])
         IN  IF st.exc.exc # NoExc THEN st.exc
             ELSE LET edges == IF opts.dedupe_edges
                               THEN DedupeEdges(st.edges, 1, {}, <<>>)
                               ELSE st.edges
                  IN  ReturnText(Join(BuildLines(direction, st.nodes, edges, opts))
                                 \o <<"\n">>)

\* one mutant of the validation loop: null is not accepted
RECURSIVE ValidateItemsNoNull(_, _, _)
ValidateItemsNoNull(items, i, acc) ==
    IF i > Len(items) THEN [exc |-> ReturnText(<<>>), view_deps |-> acc]
    ELSE LET view == items[i].key
             deps == items[i].val
         IN  IF view.t # "str"
             THEN [exc |-> RaiseError(GraphError,
                                      "All keys in 'view_dependencies' must be strings", <<>>),
                   view_deps |-> acc]
             ELSE IF deps.t = "list"
             THEN IF \E j \in 1..Len(deps.elems) : deps.elems[j].t # "str"
                  THEN [exc |-> RaiseError(GraphError,
                                           "Dependencies for '{view}' must be a list of strings",
                                           view.s),
                        view_deps |-> acc]
                  ELSE ValidateItemsNoNull(items, i + 1,
                                           DictSet(acc, view.s,
                                                   [j \in 1..Len(deps.elems) |-> deps.elems[j].s]))
             ELSE [exc |-> RaiseError(GraphError,
                                      "Dependencies for '{view}' must be a list (or null)",
                                      view.s),
                   view_deps |-> acc]

\* the loop `for view, deps in raw.items()` of json_to_mermaid, from
\* position i; acc is the view_deps dict built so far
RECURSIVE ValidateItems(_, _, _)
ValidateItems(items, i, acc) ==
    IF i > Len(items) THEN [exc |-> ReturnText(<<>>), view_deps |-> acc]
    ELSE LET view == items[i].key
             deps == items[i].val
         IN  IF view.t # "str"
             THEN [exc |-> RaiseError(GraphError,
                                      "All keys in 'view_dependencies' must be strings", <<>>),
                   view_deps |-> acc]
             ELSE IF deps.t = "None"
             THEN ValidateItems(items, i + 1, DictSet(acc, view.s, <<>>))
             ELSE IF deps.t = "list"
             THEN IF \E j \in 1..Len(deps.elems) : deps.elems[j].t # "str"
                  THEN [exc |-> RaiseError(GraphError,
                                           "Dependencies for '{view}' must be a list of strings",
                                           view.s),
                        view_deps |-> acc]
                  ELSE ValidateItems(items, i + 1,
                                     DictSet(acc, view.s,
                                             [j \in 1..Len(deps.elems) |-> deps.elems[j].s]))
             ELSE [exc |-> RaiseError(GraphError,
                                      "Dependencies for '{view}' must be a list (or null)",
                                      view.s),
                   view_deps |-> acc]

json_to_mermaid(data, opts) ==
    IF ~data.present
    THEN RaiseError(GraphError, "Missing required key: 'view_dependencies'", <<>>)
    ELSE IF data.raw.t # "dict"
    THEN RaiseError(GraphError, "'view_dependencies' must be a dictionary", <<>>)
    ELSE LET v == ValidateItems(data.raw.elems, 1, EmptyDict) IN
         IF v.exc.exc # NoExc THEN v.exc
         ELSE deps_to_mermaid(v.view_deps, opts)

\* a call json_to_mermaid(*positional, options=opts): the signature takes
\* one positional parameter, options is keyword-only
JsonToMermaidCall(positional, opts) ==
    IF Len(positional) # 1
    THEN RaiseError("TypeError",
                    "json_to_mermaid() takes 1 positional argument but 2 positional arguments (and 1 keyword-only argument) were given", <<>>)
    ELSE json_to_mermaid(positional[1], opts)

\* MermaidOptions
MermaidOptions(direction, indent, dedupe_edges, include_isolated_nodes) ==
    [direction |-> direction, indent |-> indent, dedupe_edges |-> dedupe_edges,
     include_isolated_nodes |-> include_isolated_nodes]

DefaultDirection == <<"L", "R">>
DefaultIndent == <<" ", " ">>

----------------------------------------------------------------------------
(* The inputs of the renderer. *)

\* the dicts of at most n entries with distinct keys from `keys` and
\* values from `vals`, holding at most `budget` list elements in all
RECURSIVE MappingsOver(_, _, _, _)
MappingsOver(n, budget, keys, vals) ==
    { <<>> } \cup
    IF n = 0 THEN {}
    ELSE UNION { UNION { { <<[key |-> k, val |-> v]>> \o rest :
                             rest \in MappingsOver(n - 1, budget - Len(v.elems),
                                                   keys \ {k}, vals) } :
                         v \in { w \in vals : Len(w.elems) <= budget } } :
                 k \in keys }

\* the same, the values being the lists over `elems` and the values `others`
Mappings(n, budget, keys, elems, others) ==
    MappingsOver(n, budget, keys,
                 { PyList(l) : l \in SeqsUpTo(elems, budget) } \cup others)

ValidNames == { <<"a">>, <<"b">>, <<"a", "b">> }

CollectIdle ==
    /\ views = <<>>
    /\ script = <<>>
    /\ idx = 1
    /\ result = EmptyDict
    /\ errors = EmptyDict
    /\ payload = <<>>
    /\ cpc = "idle"

\* well-formed mappings over valid names, under every setting of the two flags
InitRender ==
    /\ \E m \in Mappings(MaxViews, MaxDeps, { PyStr(n) : n \in ValidNames },
                         { PyStr(n) : n \in ValidNames }, {PyNone}) :
          args = <<Data(TRUE, PyDict(m))>>
    /\ \E d \in BOOLEAN, iso \in BOOLEAN :
          options = MermaidOptions(DefaultDirection, DefaultIndent, d, iso)
    /\ outcome = ReturnText(<<>>)
    /\ rpc = "call"
    /\ CollectIdle
    /\ ExtractorIdle

\* the call of json_to_mermaid
Render ==
    /\ rpc = "call"
    /\ outcome' = JsonToMermaidCall(args, options)
    /\ rpc' = "done"
    /\ UNCHANGED <<args, options, collectVars, extractorVars>>

NextRender == Render

SpecRender == InitRender /\ [][NextRender]_vars

\* the direction values tried: the four, and values that differ from them
\* by case, by surrounding whitespace, or altogether
DirectionInputs ==
    Directions \cup
    { <<"l", "r">>, <<" ", "T", "B">>, <<"b", "t", "\n">>, <<"X", "Y">>, <<>>,
      <<"L", " ", "R">>, <<"L", "R", "X">> }

IndentInputs == { DefaultIndent, <<>>, <<"\"">> }

\* every option setting, on small mappings (valid, name-invalid and
\* shape-invalid ones), called as the tests do and as main() does (with the
\* set of known tables as second positional argument)
InitOptions ==
    /\ \E m \in Mappings(MaxViews, MaxDeps, { PyStr(<<"a">>), PyStr(<<"a", "\"">>) },
                         { PyStr(<<"b">>) }, {PyNone, PyInt}),
          withTables \in BOOLEAN :
          args = IF withTables
                 THEN <<Data(TRUE, PyDict(m)), PySet(<<PyStr(<<"b">>)>>)>>
                 ELSE <<Data(TRUE, PyDict(m))>>
    /\ \E dir \in DirectionInputs, ind \in IndentInputs, d \in BOOLEAN, iso \in BOOLEAN :
          options = MermaidOptions(dir, ind, d, iso)
    /\ outcome = ReturnText(<<>>)
    /\ rpc = "call"
    /\ CollectIdle
    /\ ExtractorIdle

SpecOptions == InitOptions /\ [][NextRender]_vars

\* names with a character outside the class at the start, in the middle and
\* at the end, the empty name, and names ended by line terminators
KeyNameInputs == { <<"a">>, <<"a", " ", "b">>, <<"a", "\n">> }
DepNameInputs == { <<"b">>, <<>>, <<"/", "b">>, <<"b", "\n">>, <<"b", "\n", "\n">> }

\* well-shaped mappings over valid and invalid names, default options
InitNames ==
    /\ \E m \in Mappings(MaxViews, MaxDeps, { PyStr(n) : n \in KeyNameInputs },
                         { PyStr(n) : n \in DepNameInputs }, {}) :
          args = <<Data(TRUE, PyDict(m))>>
    /\ options = MermaidOptions(DefaultDirection, DefaultIndent, TRUE, TRUE)
    /\ outcome = ReturnText(<<>>)
    /\ rpc = "call"
    /\ CollectIdle
    /\ ExtractorIdle

SpecNames == InitNames /\ [][NextRender]_vars

\* mappings whose keys and values have every shape: str and non-str keys,
\* null, lists of str, lists with a non-str element, non-lists; and the two
\* malformed top levels
InitShapes ==
    /\ \/ \E m \in Mappings(MaxViews, MaxDeps,
                            { PyStr(<<"a">>), PyStr(<<"a", " ", "b">>), PyInt },
                            { PyStr(<<"b">>), PyInt }, { PyNone, PyStr(<<"b">>) }) :
             args = <<Data(TRUE, PyDict(m))>>
       \/ args = <<Data(FALSE, PyNone)>>
       \/ args = <<Data(TRUE, PyList(<<>>))>>
    /\ options = MermaidOptions(DefaultDirection, DefaultIndent, TRUE, TRUE)
    /\ outcome = ReturnText(<<>>)
    /\ rpc = "call"
    /\ CollectIdle
    /\ ExtractorIdle

SpecShapes == InitShapes /\ [][NextRender]_vars

----------------------------------------------------------------------------
(* Claims about the dependency collector. *)

\* what the scripted catalog and parser make of one view, read off the
\* script: the description of the failure, or "" when both calls succeed
ExpectedFailure(v, s) ==
    LET metaUsable == /\ ~s.client.meta.raises
                      /\ s.client.meta.rows # <<>>
                      /\ s.client.meta.rows[1][1] # ""
    IN  IF s.client.meta.raises \/ (~metaUsable /\ s.client.show.raises)
        THEN "DatabaseError: query failed"
        ELSE IF ~metaUsable /\ s.client.show.rows = <<>>
        THEN "RuntimeError: Could not fetch DDL for " \o v.db \o "." \o v.name
        ELSE IF s.parser.exc # NoExc
        THEN s.parser.exc \o ": " \o s.parser.msg
        ELSE ""

C1_State ==
    \* the call is never left by an exception and never stuck
    /\ cpc \in {"loop", "returned"}
    /\ cpc = "loop" => ENABLED NextCollect
    \* the descriptors before idx, and only they, have been visited
    /\ idx \in 1..(Len(views) + 1)
    /\ DictKeys(result) \cup DictKeys(errors) = { FqView(views[i]) : i \in 1..(idx - 1) }
    \* on return every descriptor is a key of one of the two mappings
    /\ cpc = "returned" =>
          /\ idx = Len(views) + 1
          /\ \A i \in 1..Len(views) :
                FqView(views[i]) \in DictKeys(payload.view_dependencies)
                                     \cup DictKeys(payload.errors)

C1_Step ==
    \* the loop visits the descriptors one by one, in list order
    /\ idx' \in {idx, idx + 1}
    /\ idx' = idx + 1 =>
          LET v == views[idx]
              failure == ExpectedFailure(v, script[idx])
          IN  IF failure # ""
              THEN \* a failing view: its error is recorded, no dependency entry is added
                   /\ result' = result
                   /\ DictHas(errors', FqView(v))
                   /\ DictGet(errors', FqView(v)) = failure
                   /\ \A k \in DictKeys(errors) \ {FqView(v)} :
                         DictHas(errors', k) /\ DictGet(errors', k) = DictGet(errors, k)
              ELSE /\ errors' = errors
                   /\ DictHas(result', FqView(v))

\* C1: _views_to_json visits every descriptor in list order and returns
\* normally whatever fails: a failing view records "<errorKind>: <message>"
\* under its fully-qualified name, adds nothing to view_dependencies in that
\* iteration, and the loop goes on; on return every descriptor's name is a
\* key of view_dependencies or of errors.
C1_BatchCompletes == [](C1_State) /\ [][C1_Step]_vars

\* a batch whose first view failed and whose second view succeeded
C1_Witness ==
    /\ cpc = "returned"
    /\ Len(views) = 2
    /\ ExpectedFailure(views[1], script[1]) # ""
    /\ ExpectedFailure(views[2], script[2]) = ""
    /\ DictHas(payload.errors, FqView(views[1]))
    /\ DictHas(payload.view_dependencies, FqView(views[2]))

\* C2: in the returned payload the key sets of view_dependencies and errors
\* are disjoint, also when two descriptors produce the same db.name.
C2_Disjoint ==
    cpc = "returned" =>
        DictKeys(payload.view_dependencies) \cap DictKeys(payload.errors) = {}

----------------------------------------------------------------------------
(* Reading a rendered text and an input mapping, for the claims below. *)

\* the pieces of s between line terminators
RECURSIVE SplitLines(_)
SplitLines(s) ==
    IF \A i \in 1..Len(s) : s[i] # "\n" THEN <<s>>
    ELSE LET k == CHOOSE i \in 1..Len(s) : s[i] = "\n" /\ \A j \in 1..(i - 1) : s[j] # "\n"
         IN  <<SubSeq(s, 1, k - 1)>> \o SplitLines(SubSeq(s, k + 1, Len(s)))

\* the lines of a text, each ended by its terminator
TextLines(text) ==
    LET pieces == SplitLines(text) IN SubSeq(pieces, 1, Len(pieces) - 1)

\* the lines after the header
BodyLines(text) == Tail(TextLines(text))

Contains(s, sub) == \E k \in 1..(Len(s) - Len(sub) + 1) : SubSeq(s, k, k + Len(sub) - 1) = sub

\* q without the elements the predicate keep (on positions) rejects
RECURSIVE KeepPositions(_, _, _)
KeepPositions(q, keep(_), i) ==
    IF i > Len(q) THEN <<>>
    ELSE (IF keep(i) THEN <<q[i]>> ELSE <<>>) \o KeepPositions(q, keep, i + 1)

\* the input under 'view_dependencies' of the call
InputItems == args[1].raw.elems

\* the (dependency, view) pairs of the input: the views in order, and under
\* each view its dependency list in order (null: no pair)
RECURSIVE InputPairs(_)
InputPairs(items) ==
    IF items = <<>> THEN <<>>
    ELSE LET e == Head(items) IN
         [j \in 1..Len(e.val.elems) |-> <<e.val.elems[j].s, e.key.s>>]
         \o InputPairs(Tail(items))

\* every name of the input: view keys and dependency entries
InputNodes(items) ==
    { items[i].key.s : i \in 1..Len(items) }
    \cup UNION { { items[i].val.elems[j].s : j \in 1..Len(items[i].val.elems) } :
                 i \in 1..Len(items) }

\* the first occurrence of each distinct pair, in order
FirstOccurrences(q) ==
    LET first(i) == \A j \in 1..(i - 1) : q[j] # q[i] IN KeepPositions(q, first, 1)

\* the text a pair is written as
PairText(indent, pr) == indent \o pr[1] \o <<" ", "-", ".", "-", ">", " ">> \o pr[2]

Rendered == rpc = "done" /\ outcome.exc = NoExc

----------------------------------------------------------------------------
(* Claims about the rendered graph (well-formed mappings over valid names). *)

\* C3: the edge lines of the rendered text are, in order, the (dependency,
\* view) pairs of the input: with dedupe_edges each distinct pair once at
\* the position of its first occurrence, without it every occurrence.
C3_EdgeLines ==
    rpc = "done" =>
        /\ outcome.exc = NoExc
        /\ LET body == BodyLines(outcome.text)
               isEdge(i) == Contains(body[i], <<"-", ".", "-", ">">>)
               pairs == InputPairs(InputItems)
               want == IF options.dedupe_edges THEN FirstOccurrences(pairs) ELSE pairs
           IN  KeepPositions(body, isEdge, 1)
                   = [i \in 1..Len(want) |-> PairText(options.indent, want[i])]

\* deduplication dropped a later occurrence that had another pair before it
C3_Witness ==
    /\ Rendered
    /\ options.dedupe_edges
    /\ LET pairs == InputPairs(InputItems) IN
       /\ \E i, j, k \in 1..Len(pairs) :
             i < j /\ j < k /\ pairs[i] = pairs[k] /\ pairs[j] # pairs[i]
       /\ Len(BodyLines(outcome.text)) >= 2

\* C7: with include_isolated_nodes=false and at least one edge, every body
\* line is an edge line `<indent><src> -.-> <dst>`; no bare node line.
C7_NoBareNodeLine ==
    (rpc = "done" /\ ~options.include_isolated_nodes /\ InputPairs(InputItems) # <<>>) =>
        /\ outcome.exc = NoExc
        /\ LET body == BodyLines(outcome.text)
               nodes == InputNodes(InputItems)
           IN  \A i \in 1..Len(body) :
                  /\ \E src \in nodes, dst \in nodes :
                        body[i] = PairText(options.indent, <<src, dst>>)
                  /\ \A n \in nodes : body[i] # options.indent \o n

\* edges exist beside a view with a null list and a view that is untouched
C7_Witness ==
    /\ Rendered
    /\ ~options.include_isolated_nodes
    /\ InputPairs(InputItems) # <<>>
    /\ \E i \in 1..Len(InputItems) :
          /\ InputItems[i].val.t = "None"
          /\ \A pr \in Range(InputPairs(InputItems)) : InputItems[i].key.s \notin Range(pr)

\* C8: with include_isolated_nodes=true the bare node lines are exactly the
\* nodes touched by no edge, each once, in alphabetical order, after every
\* edge line.
C8_IsolatedNodes ==
    (rpc = "done" /\ options.include_isolated_nodes) =>
        /\ outcome.exc = NoExc
        /\ LET body == BodyLines(outcome.text)
               isEdge(i) == Contains(body[i], <<"-", ".", "-", ">">>)
               isBare(i) == ~isEdge(i)
               bare == KeepPositions(body, isBare, 1)
               pairs == InputPairs(InputItems)
               touched == UNION { Range(pr) : pr \in Range(pairs) }
               isolated == InputNodes(InputItems) \ touched
           IN  /\ Range(bare) = { options.indent \o n : n \in isolated }
               /\ Len(bare) = Cardinality(isolated)
               /\ \A i \in 1..(Len(bare) - 1) :
                     StrLess(SubSeq(bare[i], Len(options.indent) + 1, Len(bare[i])),
                             SubSeq(bare[i + 1], Len(options.indent) + 1, Len(bare[i + 1])))
               /\ \A i, j \in 1..Len(body) : (isBare(i) /\ isEdge(j)) => j < i

\* two isolated nodes are listed after an edge
C8_Witness ==
    /\ Rendered
    /\ options.include_isolated_nodes
    /\ LET body == BodyLines(outcome.text) IN
       /\ Len(body) >= 3
       /\ Contains(body[1], <<"-", ".", "-", ">">>)
       /\ ~Contains(body[Len(body) - 1], <<"-", ".", "-", ">">>)
       /\ ~Contains(body[Len(body)], <<"-", ".", "-", ">">>)

----------------------------------------------------------------------------
(* Claims about the options and the output format. *)

\* the allowed bare-identifier class: letters, digits, underscore, period,
\* colon, hyphen
BareIdentifierChars ==
    Range(Lower) \cup Range(Upper) \cup Range(Digits) \cup {"_", ".", ":", "-"}

BareIdentifier(name) == name # <<>> /\ \A i \in 1..Len(name) : name[i] \in BareIdentifierChars

\* the value under 'view_dependencies' is a dict of str keys whose values
\* are null or lists of str
WellShaped(data) ==
    /\ data.present
    /\ data.raw.t = "dict"
    /\ \A i \in 1..Len(data.raw.elems) :
          LET e == data.raw.elems[i] IN
          /\ e.key.t = "str"
          /\ e.val.t \in {"None", "list"}
          /\ \A j \in 1..Len(e.val.elems) : e.val.elems[j].t = "str"

\* a valid dependency mapping: well shaped, every name a bare identifier
ValidMapping(data) ==
    /\ WellShaped(data)
    /\ \A n \in InputNodes(data.raw.elems) : BareIdentifier(n)

InvalidDirectionError ==
    /\ outcome.exc = GraphError
    /\ outcome.msg = "options.direction must be one of LR, TB, RL, BT"
    /\ outcome.text = <<>>

\* the direction with surrounding whitespace removed and letters upper-cased
Canonical(d) ==
    LET isSpace(i) == d[i] \in {" ", "\t", "\n", "\r"}
        inner(i) == (\E j \in 1..i : ~isSpace(j)) /\ (\E j \in i..Len(d) : ~isSpace(j))
        up(c) == CASE c = "l" -> "L" [] c = "r" -> "R" [] c = "t" -> "T" [] c = "b" -> "B"
                   [] OTHER -> c
        kept == KeepPositions(d, inner, 1)
    IN  [i \in 1..Len(kept) |-> up(kept[i])]

FourDirections == { <<"L", "R">>, <<"T", "B">>, <<"R", "L">>, <<"B", "T">> }

\* C4 as stated: a direction that is not literally one of the four strings
\* fails with the invalid-direction error; one of the four gives the header
\* `graph <value>` with the value as supplied.
C4_DirectionAsSupplied ==
    (rpc = "done" /\ Len(args) = 1 /\ ValidMapping(args[1])) =>
        IF options.direction \in FourDirections
        THEN outcome.exc = NoExc
             /\ TextLines(outcome.text)[1] = <<"g", "r", "a", "p", "h", " ">> \o options.direction
        ELSE InvalidDirectionError

\* C4 as amended: the direction is compared after trimming and upper-casing.
\* A direction whose trimmed upper-cased form is none of the four fails with
\* the invalid-direction error on every well-shaped input, whatever its
\* names; otherwise the header of any returned text is `graph ` followed by
\* that form, and a valid mapping is rendered.
C4_DirectionNormalized ==
    (rpc = "done" /\ Len(args) = 1 /\ WellShaped(args[1])) =>
        LET value == Canonical(options.direction) IN
        IF value \in FourDirections
        THEN /\ outcome.exc = NoExc =>
                   TextLines(outcome.text)[1] = <<"g", "r", "a", "p", "h", " ">> \o value
             /\ ValidMapping(args[1]) => outcome.exc = NoExc
             /\ ~InvalidDirectionError
        ELSE InvalidDirectionError

\* a lower-case direction with trailing whitespace is accepted and
\* normalised in the header; an unknown one is refused
C4_Witness ==
    /\ rpc = "done"
    /\ Len(args) = 1
    /\ options.direction = <<"b", "t", "\n">>
    /\ outcome.exc = NoExc
    /\ TextLines(outcome.text)[1] = <<"g", "r", "a", "p", "h", " ", "B", "T">>
    /\ Len(TextLines(outcome.text)) >= 2

\* C6 as stated: for all valid mappings and all options the returned text
\* holds no double-quote character.
C6_NoQuoteAnyOptions ==
    (rpc = "done" /\ Len(args) = 1 /\ ValidMapping(args[1]) /\ outcome.exc = NoExc) =>
        "\"" \notin Range(outcome.text)

\* C6 as amended: whenever the indent option holds no double-quote
\* character, the returned text holds none, for every mapping and every
\* other option.
C6_NoQuoteUnlessIndent ==
    (rpc = "done" /\ "\"" \notin Range(options.indent)) =>
        "\"" \notin Range(outcome.text)

\* a valid mapping with an edge was rendered with a quote-free indent, and
\* a mapping with a quoted name was refused
C6_Witness ==
    /\ Rendered
    /\ "\"" \notin Range(options.indent)
    /\ ValidMapping(args[1])
    /\ InputPairs(InputItems) # <<>>
    /\ Len(BodyLines(outcome.text)) >= 1

\* C9: rendering a valid mapping together with a set of known base
\* relations gives, for every node, a declaration line
\* `<indent><name>:::<classTag>`.
C9_NodeDeclarations ==
    (rpc = "done" /\ ValidMapping(args[1])
       /\ Canonical(options.direction) \in FourDirections) =>
        /\ outcome.exc = NoExc
        /\ \A n \in InputNodes(InputItems) :
              \E i \in 1..Len(BodyLines(outcome.text)) :
                 LET line == BodyLines(outcome.text)[i]
                     head == options.indent \o n \o <<":", ":", ":">>
                 IN  Len(line) > Len(head) /\ SubSeq(line, 1, Len(head)) = head

----------------------------------------------------------------------------
(* Claims about the validation of the input. *)

InvalidNodeNameError ==
    /\ outcome.exc = GraphError
    /\ outcome.msg = "Invalid node name for unquoted Mermaid output"
    /\ outcome.text = <<>>

\* C5: if any view key or dependency entry is empty or holds a character
\* outside the class, the call fails with the invalid-node-name error naming
\* such a name and returns no text; whenever text is returned every node
\* name consists of characters of the class only.
C5_InvalidNamesRejected ==
    (rpc = "done" /\ WellShaped(args[1])) =>
        LET invalid == { n \in InputNodes(InputItems) : ~BareIdentifier(n) } IN
        /\ invalid # {} => InvalidNodeNameError /\ outcome.arg \in invalid
        /\ outcome.exc = NoExc => invalid = {}

\* the value shape of an entry is neither null nor a list of str
BadShape(e) ==
    \/ e.val.t \notin {"None", "list"}
    \/ \E j \in 1..Len(e.val.elems) : e.val.elems[j].t # "str"

FormatErrorNaming(key) ==
    /\ outcome.exc = GraphError
    /\ outcome.msg \in { "Dependencies for '{view}' must be a list of strings",
                         "Dependencies for '{view}' must be a list (or null)" }
    /\ outcome.arg = key
    /\ outcome.text = <<>>

\* the mapping with every null value replaced by an empty list
NullsAsEmptyLists(data) ==
    [data EXCEPT !.raw.elems =
        [i \in 1..Len(@) |-> IF @[i].val.t = "None"
                             THEN [key |-> @[i].key, val |-> PyList(<<>>)]
                             ELSE @[i]]]

----------------------------------------------------------------------------
(* src/ch_view_dependencies.py: the identifier normalizer.                 *)
(* Identifiers are sequences of one-character strings.  An Optional[str]   *)
(* is [some, s]: None is [some |-> FALSE, s |-> <<>>].                     *)

None == [some |-> FALSE, s |-> <<>>]
Some(s) == [some |-> TRUE, s |-> s]

\* `if x:` on an Optional[str]: None and "" are false
Truthy(x) == x.some /\ x.s # <<>>

\* _IDENTIFIER_CLEAN_RE.sub("", s) on a stripped s: a backtick, double quote
\* or opening bracket at the start is removed, and a backtick, double quote
\* or closing bracket at the end is removed
IdentifierCleanSub(s) ==
    LET opening == {Backtick, "\"", "["}
        closing == {Backtick, "\"", "]"}
        dropFirst == s # <<>> /\ s[1] \in opening
        dropLast == /\ s # <<>>
                    /\ s[Len(s)] \in closing
                    /\ ~(Len(s) = 1 /\ dropFirst)
    IN  SubSeq(s, IF dropFirst THEN 2 ELSE 1, IF dropLast THEN Len(s) - 1 ELSE Len(s))

\* s.replace(c + c, c): the doubled character, left to right, not overlapping
RECURSIVE ReplaceDoubled(_, _)
ReplaceDoubled(s, c) ==
    IF Len(s) < 2 THEN s
    ELSE IF s[1] = c /\ s[2] = c
    THEN <<c>> \o ReplaceDoubled(SubSeq(s, 3, Len(s)), c)
    ELSE <<s[1]>> \o ReplaceDoubled(Tail(s), c)

clean_ident(s) ==
    ReplaceDoubled(ReplaceDoubled(IdentifierCleanSub(StrStrip(s)), Backtick), "\"")

\* name.split("."): the pieces between the periods
RECURSIVE SplitDots(_)
SplitDots(s) ==
    IF \A i \in 1..Len(s) : s[i] # "." THEN <<s>>
    ELSE LET k == CHOOSE i \in 1..Len(s) : s[i] = "." /\ \A j \in 1..(i - 1) : s[j] # "."
         IN  <<SubSeq(s, 1, k - 1)>> \o SplitDots(SubSeq(s, k + 1, Len(s)))

\* (db, table), db None unless the name has exactly one period
split_qualified(name) ==
    LET stripped == StrStrip(name)
        parts == SplitDots(stripped)
    IN  IF Len(parts) = 2
        THEN [db |-> Some(clean_ident(parts[1])), tbl |-> clean_ident(parts[2])]
        ELSE [db |-> None, tbl |-> clean_ident(stripped)]

normalize_table_name(raw, default_db) ==
    LET q == split_qualified(raw) IN
    IF Truthy(q.db) THEN q.db.s \o <<".">> \o q.tbl
    ELSE IF Truthy(default_db) THEN default_db.s \o <<".">> \o q.tbl
    ELSE q.tbl

----------------------------------------------------------------------------
(* The inputs of the normalizer. *)

\* most period-separated parts of a raw identifier
MaxParts == 3

\* one part of an identifier: bare, quoted in each of the three ways, with
\* a doubled (escaped) backtick inside its quotes, and padded
IdentParts ==
    { <<"a">>, <<Backtick, "a", Backtick>>, <<"\"", "b", "\"">>, <<"[", "b", "]">>,
      <<Backtick, "a", Backtick, Backtick, "b", Backtick>>, <<" ", "a">> }

RECURSIVE JoinDots(_)
JoinDots(parts) ==
    IF Len(parts) = 1 THEN parts[1]
    ELSE parts[1] \o <<".">> \o JoinDots(Tail(parts))

RawIdentifiers == { JoinDots(ps) : ps \in SeqsUpTo(IdentParts, MaxParts) \ { <<>> } }

DefaultSchemas == { None, Some(<<>>), Some(<<"x">>), Some(<<"x", ".", "y">>) }

InitNormalize ==
    /\ raw_name \in RawIdentifiers
    /\ default_schema \in DefaultSchemas
    /\ norm = <<>>
    /\ cleaned = <<>>
    /\ npc = "start"
    /\ CollectIdle
    /\ RenderIdle
    /\ ParseIdle

\* normalize_table_name and clean_ident on the inputs
NormalizeRaw ==
    /\ npc = "start"
    /\ norm' = <<normalize_table_name(raw_name, default_schema)>>
    /\ cleaned' = clean_ident(raw_name)
    /\ npc' = "once"
    /\ UNCHANGED <<raw_name, default_schema, collectVars, renderVars, parseVars>>

\* normalize_table_name applied to its own result
NormalizeAgain ==
    /\ npc = "once"
    /\ norm' = Append(norm, normalize_table_name(norm[1], default_schema))
    /\ npc' = "twice"
    /\ UNCHANGED <<raw_name, default_schema, cleaned, collectVars, renderVars, parseVars>>

NextNormalize == NormalizeRaw \/ NormalizeAgain

SpecNormalize == InitNormalize /\ [][NextNormalize]_vars

----------------------------------------------------------------------------
(* Claims about the identifier normalizer. *)

QuotingMarkers == {Backtick, "\"", "[", "]"}

\* C11: normalization is idempotent: for every raw identifier and every
\* default schema, normalizing the normalized name gives it back; and
\* clean_ident returns an identifier without quoting markers unchanged.
C11_Idempotent ==
    /\ npc = "twice" => norm[2] = norm[1]
    /\ (npc # "start" /\ Range(raw_name) \cap (QuotingMarkers \cup Whitespace) = {}) =>
          cleaned = raw_name

----------------------------------------------------------------------------
(* src/ch_view_dependencies.py: parse_view_tables and TableNameCollector.  *)
(* The generated parser is outside the repository: an entry rule is        *)
(* absent, raises, or returns a parse tree.  A tree is the sequence of its *)
(* nodes in the order visit() reaches them (parent first, children left to *)
(* right); a node carries the texts the regular expressions and            *)
(* tableIdentifier() obtain from it.                                       *)

EntryRules == <<"statement", "sqlStatement", "sqlStatements", "query", "selectStmt">>

Absent == [kind |-> "absent", tree |-> <<>>]
Raises == [kind |-> "raises", tree |-> <<>>]
Returns(tree) == [kind |-> "returns", tree |-> tree]

NoRoot == [some |-> FALSE, tree |-> <<>>]
Root(tree) == [some |-> TRUE, tree |-> tree]

\* a WITH clause, with the names the alias pattern captures in its text
WithNode(aliases) == [kind |-> "with", texts |-> aliases]
\* a node whose class name looks table-like, with the texts handed to
\* _add_table_text: that of tableIdentifier(), then the FROM/JOIN captures
TableNode(texts) == [kind |-> "table", texts |-> texts]
\* any other node
OtherNode == [kind |-> "other", texts |-> <<>>]

TableNameCollector(default_db) ==
    [default_db |-> default_db, tables |-> {}, cte_names |-> {}]

\* the loop of visitWithClause over the captured names
RECURSIVE AddCteNames(_, _)
AddCteNames(v, aliases) ==
    IF aliases = <<>> THEN v
    ELSE AddCteNames([v EXCEPT !.cte_names = @ \cup {clean_ident(Head(aliases))}],
                     Tail(aliases))

add_table_text(v, raw) ==
    LET stripped == StrStrip(raw) IN
    IF stripped = <<>> THEN v
    ELSE IF "(" \in Range(stripped) \/ ")" \in Range(stripped) THEN v
    ELSE LET name == normalize_table_name(stripped, v.default_db)
             tbl == split_qualified(name).tbl
         IN  IF tbl \in v.cte_names THEN v
             ELSE [v EXCEPT !.tables = @ \cup {name}]

\* _try_extract_table_like_text: each candidate text in turn
RECURSIVE try_extract_table_like_text(_, _)
try_extract_table_like_text(v, texts) ==
    IF texts = <<>> THEN v
    ELSE try_extract_table_like_text(add_table_text(v, Head(texts)), Tail(texts))

NoEntryRuleError ==
    Raised("RuntimeError",
           "Could not find a suitable entry rule on ClickHouseParser for this grammar.")

\* one mutant of the loop body: an entry rule that raises ends the loop
EntryIterationPropagates(rule, i) ==
    CASE rule.kind = "absent" -> [eidx |-> i + 1, called |-> FALSE, root |-> NoRoot]
      [] rule.kind = "raises" -> [eidx |-> Len(EntryRules) + 1, called |-> TRUE, root |-> NoRoot]
      [] OTHER -> [eidx |-> i, called |-> TRUE, root |-> Root(rule.tree)]

\* one iteration of the loop over the entry rules, at position i
EntryIteration(rule, i) ==
    CASE rule.kind = "absent" -> [eidx |-> i + 1, called |-> FALSE, root |-> NoRoot]
      [] rule.kind = "raises" -> [eidx |-> i + 1, called |-> TRUE, root |-> NoRoot]
      [] OTHER -> [eidx |-> i, called |-> TRUE, root |-> Root(rule.tree)]

\* `for entry in [...]`: hasattr, the call, break or continue
EntryLoop ==
    /\ ppc = "entry"
    /\ eidx <= Len(EntryRules)
    /\ LET it == EntryIteration(grammar[eidx], eidx) IN
       /\ eidx' = it.eidx
       /\ invoked' = IF it.called THEN Append(invoked, EntryRules[eidx]) ELSE invoked
       /\ root' = it.root
       /\ pending' = it.root.tree
       /\ ppc' = IF it.root.some THEN "visit" ELSE "entry"
    /\ UNCHANGED <<grammar, visitor, parsed, collectVars, renderVars, normVars>>

\* `if root is None: raise RuntimeError(...)` after the loop ran out
NoEntryRule ==
    /\ ppc = "entry"
    /\ eidx > Len(EntryRules)
    /\ parsed' = NoEntryRuleError
    /\ ppc' = "done"
    /\ UNCHANGED <<grammar, eidx, root, invoked, visitor, pending,
                   collectVars, renderVars, normVars>>

visitWithClause ==
    /\ ppc = "visit"
    /\ pending # <<>>
    /\ Head(pending).kind = "with"
    /\ visitor' = AddCteNames(visitor, Head(pending).texts)
    /\ pending' = Tail(pending)
    /\ UNCHANGED <<grammar, eidx, root, invoked, parsed, ppc,
                   collectVars, renderVars, normVars>>

\* visitChildren on a node that looks table-like
visitChildrenTableLike ==
    /\ ppc = "visit"
    /\ pending # <<>>
    /\ Head(pending).kind = "table"
    /\ visitor' = try_extract_table_like_text(visitor, Head(pending).texts)
    /\ pending' = Tail(pending)
    /\ UNCHANGED <<grammar, eidx, root, invoked, parsed, ppc,
                   collectVars, renderVars, normVars>>

\* visitChildren on any other node
visitChildren ==
    /\ ppc = "visit"
    /\ pending # <<>>
    /\ Head(pending).kind = "other"
    /\ pending' = Tail(pending)
    /\ UNCHANGED <<grammar, eidx, root, invoked, visitor, parsed, ppc,
                   collectVars, renderVars, normVars>>

\* `return sorted(visitor.tables)`
ReturnTables ==
    /\ ppc = "visit"
    /\ pending = <<>>
    /\ parsed' = Returned(Sorted(visitor.tables))
    /\ ppc' = "done"
    /\ UNCHANGED <<grammar, eidx, root, invoked, visitor, pending,
                   collectVars, renderVars, normVars>>

NextParse ==
    \/ EntryLoop
    \/ NoEntryRule
    \/ visitWithClause
    \/ visitChildrenTableLike
    \/ visitChildren
    \/ ReturnTables

----------------------------------------------------------------------------
(* The grammars: every combination of absent, raising and returning entry  *)
(* rules, each returning rule with a tree of its own.                      *)

RuleTables == <<"s", "q", "r", "u", "v">>

TreeOf(i) == <<WithNode(<<<<"c">>>>), OtherNode, TableNode(<<<<RuleTables[i]>>>>)>>

Grammars == [1..Len(EntryRules) -> {"absent", "raises", "returns"}]

GrammarOf(g) ==
    [i \in 1..Len(EntryRules) |->
        CASE g[i] = "absent" -> Absent
          [] g[i] = "raises" -> Raises
          [] OTHER -> Returns(TreeOf(i))]

ParseStart ==
    /\ eidx = 1
    /\ root = NoRoot
    /\ invoked = <<>>
    /\ pending = <<>>
    /\ parsed = <<>>
    /\ ppc = "entry"
    /\ CollectIdle
    /\ RenderIdle
    /\ NormalizeIdle

InitEntry ==
    /\ grammar \in { GrammarOf(g) : g \in Grammars }
    /\ visitor = TableNameCollector(Some(<<"d">>))
    /\ ParseStart

SpecEntry == InitEntry /\ [][NextParse]_vars

----------------------------------------------------------------------------
(* Claims about the parser adapter. *)

Usable == { i \in 1..Len(EntryRules) : grammar[i].kind = "returns" }
FirstUsable == CHOOSE i \in Usable : \A j \in Usable : i <= j

\* the rules of EntryRules[1..n] that exist on the parser, in order
RECURSIVE PresentUpTo(_)
PresentUpTo(n) ==
    IF n = 0 THEN <<>>
    ELSE IF grammar[n].kind = "absent" THEN PresentUpTo(n - 1)
    ELSE Append(PresentUpTo(n - 1), EntryRules[n])

\* C12: the entry rules are tried in the order statement, sqlStatement,
\* sqlStatements, query, selectStmt; an absent rule is not called and a
\* raising one is passed over; the tree of the first rule that exists and
\* returns is the one visited, and no later rule is called; when no rule
\* returns, the call raises the no-usable-entry-rule error.
C12_EntryRuleOrder ==
    ppc # "idle" =>
        /\ root.some =>
              /\ Usable # {}
              /\ root.tree = grammar[FirstUsable].tree
              /\ invoked = PresentUpTo(FirstUsable)
              /\ \E k \in 0..Len(root.tree) :
                    pending = SubSeq(root.tree, k + 1, Len(root.tree))
        /\ ~root.some =>
              /\ invoked = PresentUpTo(IF eidx > Len(EntryRules)
                                       THEN Len(EntryRules) ELSE eidx - 1)
              /\ \A i \in Usable : i >= eidx
        /\ ppc = "done" =>
              IF Usable = {}
              THEN parsed = NoEntryRuleError /\ ~root.some
              ELSE /\ parsed.exc = NoExc
                   /\ parsed.value = <<<<"d", ".", RuleTables[FirstUsable]>>>>

\* an absent rule was skipped, a raising one passed over, the third used
\* and the usable fourth never called
C12_Witness ==
    /\ ppc = "done"
    /\ grammar[1].kind = "absent"
    /\ grammar[2].kind = "raises"
    /\ grammar[3].kind = "returns"
    /\ grammar[4].kind = "returns"
    /\ invoked = <<"sqlStatement", "sqlStatements">>
    /\ parsed = Returned(<<<<"d", ".", "r">>>>)

----------------------------------------------------------------------------
(* The trees: every order of WITH clauses, table-like nodes and other      *)
(* nodes, under a grammar whose query rule returns the tree.               *)

\* most nodes of a tree
MaxNodes == 3

Nodes ==
    { WithNode(<<<<"c">>>>),
      WithNode(<<<<"c">>, <<"t">>>>),
      TableNode(<<>>),
      TableNode(<<<<"c">>>>),
      TableNode(<<<<"t">>, <<"d", ".", "c">>>>),
      TableNode(<<<<Backtick, "c", Backtick>>>>),
      TableNode(<<<<"c", "(", ")">>, <<" ">>>>),
      OtherNode }

Trees == SeqsUpTo(Nodes, MaxNodes)

VisitorSchemas == { None, Some(<<"d">>), Some(<<"x", ".", "y">>) }

InitExtract ==
    /\ grammar \in { [i \in 1..Len(EntryRules) |-> IF i = 4 THEN Returns(t) ELSE Absent] :
                        t \in Trees }
    /\ visitor \in { TableNameCollector(d) : d \in VisitorSchemas }
    /\ ParseStart

NextExtract ==
    \/ EntryLoop
    \/ visitWithClause
    \/ visitChildrenTableLike
    \/ visitChildren
    \/ ReturnTables

SpecExtract == InitExtract /\ [][NextExtract]_vars

----------------------------------------------------------------------------
(* Claims about the table-name extractor. *)

\* the unqualified local part of a name: what follows its last period
LocalPart(name) == LET parts == SplitDots(name) IN parts[Len(parts)]

\* C13: when extraction has finished, whatever the order in which the
\* traversal reached the table-like nodes and the WITH clauses and whatever
\* the default schema, no name of the result has an unqualified local part
\* equal to a recorded CTE alias.
C13_NoCteNames ==
    (ppc = "done" /\ parsed.exc = NoExc) =>
        \A i \in 1..Len(parsed.value) :
            LocalPart(parsed.value[i]) \notin visitor.cte_names

=============================================================================
